---- MODULE Spec2Model ----
(***************************************************************************)
(* State-machine model of server.js: the Express application with the      *)
(* health route, the OAuth callback route /on_auth and the multipart       *)
(* /upload route.  Strings whose content matters (the token payload, the   *)
(* frontend URL, the redirect target) are sequences of one-character       *)
(* strings, so that JSON.stringify and encodeURIComponent are computed     *)
(* character by character.                                                 *)
(***************************************************************************)
EXTENDS Integers, Sequences, FiniteSets, TLC

(* ------------------------------ bounds --------------------------------- *)
MaxReq == 2        \* number of HTTP requests served in one behaviour
MaxLen == 1        \* longest string inside a token payload

Ids   == 1..MaxReq
Paths == 1..MaxReq \* names multer can draw for files under /tmp/uploads/

(* --------------------------- input alphabets --------------------------- *)
Undefined == "<undefined>"            \* a query/body field that is absent
Codes     == {Undefined, "", "c1"}    \* req.query.code
States    == {Undefined, "s1"}        \* req.query.state
Tokens    == {Undefined, "", "tok"}   \* req.body.access_token

\* a test for absence only (=== undefined) where the code tests truthiness
FalsyOnlyUndefined(x) == x = Undefined

\* JavaScript truthiness of an absent-or-string value
Falsy(x) == x \in {Undefined, ""}

PayloadChars == {"\"", "%"}

RECURSIVE StringsUpTo(_)
StringsUpTo(n) ==
  IF n = 0 THEN {<<>>}
  ELSE LET S == StringsUpTo(n - 1)
       IN  S \cup {Append(s, c) : s \in {t \in S : Len(t) = n - 1}, c \in PayloadChars}

\* token payloads: the JSON objects {"t": <string>}
Payloads == [type : {"obj"}, val : StringsUpTo(MaxLen)]
NoPayload == [type |-> "none", val |-> <<>>]

\* values of process.env.FRONTEND_URL; <<>> is unset (or the empty string)
FrontendVals == {<<>>, <<"/", "a">>}

(* ------------------------------ state ---------------------------------- *)
VARIABLES
  pc,        \* pc[r]: "new", "handler" (multer done, handler pending),
             \*        "awaiting" (axios.post pending), "done"
  req,       \* req[r]: the request as the handlers see it
  resp,      \* resp[r]: the response sent for r
  reply,     \* reply[r]: what the token endpoint answered for r, and the
             \*           value of process.env.FRONTEND_URL read after it
  calls,     \* calls[r]: outbound token endpoint calls made for r
  raised,    \* raised[r]: where an exception was raised while handling r
  unlinked,  \* <<r, p>>: handler of r called fs.unlinkSync(p)
  storage,   \* files present under /tmp/uploads/
  names,     \* file names multer has generated so far
  env        \* process.env.FRONTEND_URL

vars == <<pc, req, resp, reply, calls, raised, unlinked, storage, names, env>>

NoReq  == [kind |-> "none", code |-> Undefined, state |-> Undefined,
           hasFile |-> FALSE, token |-> Undefined, path |-> 0]
NoResp == [status |-> 0, ctype |-> "none", text |-> "", location |-> <<>>,
           ok |-> "absent", demo |-> FALSE, message |-> "", error |-> ""]

(* ------------------------ pure string functions ------------------------ *)
QTOKEN == <<"?", "t", "o", "k", "e", "n", "=">>

\* JSON.stringify escaping of one character of a string
EscapeChar(c) ==
  IF c = "\"" THEN <<"\\", "\"">>
  ELSE IF c = "\\" THEN <<"\\", "\\">>
  ELSE <<c>>

RECURSIVE Escape(_)
Escape(s) == IF s = <<>> THEN <<>> ELSE EscapeChar(Head(s)) \o Escape(Tail(s))

Quote(s) == <<"\"">> \o Escape(s) \o <<"\"">>

JSONstringify(p) ==
  <<"{">> \o Quote(<<"t">>) \o <<":">> \o Quote(p.val) \o <<"}">>

\* characters encodeURIComponent leaves alone (those the model can meet)
Unreserved == {"a", "b", "t", "o", "k", "e", "n", "-", "_", ".", "!", "~", "*", "'", "(", ")"}

PercentCode(c) ==
  CASE c = "\"" -> <<"%", "2", "2">>
    [] c = "%"  -> <<"%", "2", "5">>
    [] c = "\\" -> <<"%", "5", "C">>
    [] c = "{"  -> <<"%", "7", "B">>
    [] c = "}"  -> <<"%", "7", "D">>
    [] c = ":"  -> <<"%", "3", "A">>
    [] c = "/"  -> <<"%", "2", "F">>
    [] c = "?"  -> <<"%", "3", "F">>
    [] c = "="  -> <<"%", "3", "D">>

EncodeChar(c) == IF c \in Unreserved THEN <<c>> ELSE PercentCode(c)

RECURSIVE encodeURIComponent(_)
encodeURIComponent(s) ==
  IF s = <<>> THEN <<>> ELSE EncodeChar(Head(s)) \o encodeURIComponent(Tail(s))

\* process.env.FRONTEND_URL || '/'
Frontend(e) == IF e = <<>> THEN <<"/">> ELSE e

\* the redirect built without encodeURIComponent
RedirectTargetRaw(e, tokenData) ==
  Frontend(e) \o QTOKEN \o JSONstringify(tokenData)

\* `${frontend}?token=${tokenQuery}`
RedirectTarget(e, tokenData) ==
  Frontend(e) \o QTOKEN \o encodeURIComponent(JSONstringify(tokenData))

NoReply == [outcome |-> "none", data |-> NoPayload, envRead |-> <<>>]

(* ------------------------------ Init ----------------------------------- *)
Init ==
  /\ pc = [r \in Ids |-> "new"]
  /\ req = [r \in Ids |-> NoReq]
  /\ resp = [r \in Ids |-> NoResp]
  /\ reply = [r \in Ids |-> NoReply]
  /\ calls = [r \in Ids |-> 0]
  /\ raised = [r \in Ids |-> "none"]
  /\ unlinked = {}
  /\ storage = {}
  /\ names = {}
  /\ env \in FrontendVals

\* requests are numbered in the order they arrive
Arrives(r) == pc[r] = "new" /\ \A q \in Ids : q < r => pc[q] # "new"

(* --------------------------- GET / ------------------------------------- *)
Health(r) ==
  /\ Arrives(r)
  /\ req' = [req EXCEPT ![r] = [NoReq EXCEPT !.kind = "health"]]
  /\ resp' = [resp EXCEPT ![r] = [NoResp EXCEPT !.status = 200, !.ctype = "text",
                                   !.text = "FrameLift AI backend running"]]
  /\ pc' = [pc EXCEPT ![r] = "done"]
  /\ UNCHANGED <<reply, calls, raised, unlinked, storage, names, env>>

(* --------------------------- GET /on_auth ------------------------------ *)
\* lines 39-54: read the query, reject a missing code, else start axios.post
OnAuth(r, code, state) ==
  /\ Arrives(r)
  /\ req' = [req EXCEPT ![r] = [NoReq EXCEPT !.kind = "auth", !.code = code,
                                             !.state = state]]
  /\ IF Falsy(code)
       THEN /\ resp' = [resp EXCEPT ![r] = [NoResp EXCEPT !.status = 400,
                                     !.ctype = "text", !.text = "Missing code"]]
            /\ pc' = [pc EXCEPT ![r] = "done"]
            /\ UNCHANGED calls
       ELSE /\ calls' = [calls EXCEPT ![r] = @ + 1]
            /\ pc' = [pc EXCEPT ![r] = "awaiting"]
            /\ UNCHANGED resp
  /\ UNCHANGED <<reply, raised, unlinked, storage, names, env>>

\* lines 57-62: the await resolves with tokenResp, the handler redirects
OnAuthResolved(r, tokenData) ==
  /\ pc[r] = "awaiting"
  /\ reply' = [reply EXCEPT ![r] = [outcome |-> "ok", data |-> tokenData,
                                    envRead |-> env]]
  /\ resp' = [resp EXCEPT ![r] = [NoResp EXCEPT !.status = 302, !.ctype = "redirect",
                                   !.location = RedirectTarget(env, tokenData)]]
  /\ pc' = [pc EXCEPT ![r] = "done"]
  /\ UNCHANGED <<req, calls, raised, unlinked, storage, names, env>>

\* a network error (no err.response) or a non-2xx answer (err.response set)
Failures == {"network", "http"}

\* a catch block that repeats the call once before giving up
OnAuthRejectedRetry(r, failure) ==
  /\ pc[r] = "awaiting"
  /\ reply' = [reply EXCEPT ![r] = [NoReply EXCEPT !.outcome = failure]]
  /\ raised' = [raised EXCEPT ![r] = "axios"]
  /\ IF calls[r] < 2
       THEN /\ calls' = [calls EXCEPT ![r] = @ + 1]
            /\ UNCHANGED <<resp, pc>>
       ELSE /\ resp' = [resp EXCEPT ![r] = [NoResp EXCEPT !.status = 500,
                           !.ctype = "text", !.text = "Token exchange failed"]]
            /\ pc' = [pc EXCEPT ![r] = "done"]
            /\ UNCHANGED calls
  /\ UNCHANGED <<req, unlinked, storage, names, env>>

\* lines 63-66: the await rejects, the catch block answers
OnAuthRejected(r, failure) ==
  /\ pc[r] = "awaiting"
  /\ reply' = [reply EXCEPT ![r] = [NoReply EXCEPT !.outcome = failure]]
  /\ raised' = [raised EXCEPT ![r] = "axios"]
  /\ resp' = [resp EXCEPT ![r] = [NoResp EXCEPT !.status = 500, !.ctype = "text",
                                   !.text = "Token exchange failed"]]
  /\ pc' = [pc EXCEPT ![r] = "done"]
  /\ UNCHANGED <<req, calls, unlinked, storage, names, env>>

(* --------------------------- POST /upload ------------------------------ *)
MulterOutcomes == {"nofile", "file", "error"}

\* upload.single('video') with dest /tmp/uploads/: no file part leaves
\* req.file undefined; a file part is written under a newly generated name;
\* an error goes to next(err), which no error middleware of the app takes,
\* so the router's final handler answers 500 with its own (HTML) body and
\* the route handler never runs.  Generated names never repeat and are
\* interchangeable, so they are drawn in increasing order.
NewName == CHOOSE p \in Paths \ names : \A q \in Paths \ names : p <= q

MulterSingle(r, token, outcome) ==
  /\ Arrives(r)
  /\ req' = [req EXCEPT ![r] = [NoReq EXCEPT !.kind = "upload", !.token = token,
                                 !.hasFile = (outcome = "file"),
                                 !.path = IF outcome = "file" THEN NewName ELSE 0]]
  /\ CASE outcome = "nofile" ->
            /\ pc' = [pc EXCEPT ![r] = "handler"]
            /\ UNCHANGED <<resp, raised, storage, names>>
       [] outcome = "file" ->
            /\ pc' = [pc EXCEPT ![r] = "handler"]
            /\ storage' = storage \cup {NewName}
            /\ names' = names \cup {NewName}
            /\ UNCHANGED <<resp, raised>>
       [] outcome = "error" ->
            /\ pc' = [pc EXCEPT ![r] = "done"]
            /\ raised' = [raised EXCEPT ![r] = "multer"]
            /\ resp' = [resp EXCEPT ![r] = [NoResp EXCEPT !.status = 500,
                                                         !.ctype = "html"]]
            /\ UNCHANGED <<storage, names>>
  /\ UNCHANGED <<reply, calls, unlinked, env>>

\* fs.unlinkSync(p): throws when p does not exist, and may throw (EACCES,
\* EPERM, EBUSY, ...) when it does, leaving the file in place
UnlinkThrows(p, fsOk) == p \notin storage \/ ~fsOk

\* an unlink that reports success and removes nothing
AfterUnlinkNothing(p, fsOk) == storage
\* a removal of the whole upload directory instead of the one file
AfterUnlinkAll(p, fsOk) == IF UnlinkThrows(p, fsOk) THEN storage ELSE {}

AfterUnlink(p, fsOk)  == IF UnlinkThrows(p, fsOk) THEN storage ELSE storage \ {p}

\* res.json(...) without .status(400)
Json400NoStatus == [NoResp EXCEPT !.status = 200, !.ctype = "json", !.ok = "false",
                                  !.message = "No file uploaded"]

Json400 == [NoResp EXCEPT !.status = 400, !.ctype = "json", !.ok = "false",
                          !.message = "No file uploaded"]
JsonDemo == [NoResp EXCEPT !.status = 200, !.ctype = "json", !.ok = "true",
                           !.demo = TRUE,
                           !.message = "Demo upload accepted (no TikTok call)"]
JsonReceived == [NoResp EXCEPT !.status = 200, !.ctype = "json", !.ok = "true",
   !.message = "File received. In production this would be uploaded to TikTok (demo mode)."]
Json500(msg) == [NoResp EXCEPT !.status = 500, !.ctype = "json", !.ok = "false",
                               !.error = msg]

\* lines 77-109: the body of the route handler; it holds no await, so it
\* runs to its response in one step
UploadHandler(r, fsOk) ==
  /\ pc[r] = "handler"
  /\ pc' = [pc EXCEPT ![r] = "done"]
  /\ IF ~req[r].hasFile
       THEN /\ resp' = [resp EXCEPT ![r] = Json400]
            /\ UNCHANGED <<unlinked, storage, raised>>
       ELSE /\ unlinked' = unlinked \cup {<<r, req[r].path>>}
            /\ storage' = AfterUnlink(req[r].path, fsOk)
            /\ IF UnlinkThrows(req[r].path, fsOk)
                 THEN /\ raised' = [raised EXCEPT ![r] = "unlink"]
                      /\ resp' = [resp EXCEPT ![r] = Json500("unlink failed")]
                 ELSE /\ UNCHANGED raised
                      /\ resp' = [resp EXCEPT ![r] =
                                    IF Falsy(req[r].token) THEN JsonDemo
                                                           ELSE JsonReceived]
  /\ UNCHANGED <<req, reply, calls, names, env>>

(* ------------------------- the environment ----------------------------- *)
\* process.env is an ordinary mutable object of the process
EnvChange(v) ==
  /\ v # env
  /\ env' = v
  /\ UNCHANGED <<pc, req, resp, reply, calls, raised, unlinked, storage, names>>

Next ==
  \/ \E r \in Ids : Health(r)
  \/ \E r \in Ids, code \in Codes, state \in States : OnAuth(r, code, state)
  \/ \E r \in Ids, tokenData \in Payloads : OnAuthResolved(r, tokenData)
  \/ \E r \in Ids, failure \in Failures : OnAuthRejected(r, failure)
  \/ \E r \in Ids, token \in Tokens, outcome \in MulterOutcomes :
        MulterSingle(r, token, outcome)
  \/ \E r \in Ids, fsOk \in BOOLEAN : UploadHandler(r, fsOk)
  \/ \E v \in FrontendVals : EnvChange(v)

Spec == Init /\ [][Next]_vars

(* ====================== properties of the handlers ===================== *)
IsAuth(r)   == req[r].kind = "auth"
IsUpload(r) == req[r].kind = "upload"
Done(r)     == pc[r] = "done"
\* the route handler of /upload ran for r (multer did not fail)
HandlerRan(r) == IsUpload(r) /\ Done(r) /\ raised[r] # "multer"

(* what a receiver of the redirect does with the token parameter *)
Encodable == {"\"", "%", "\\", "{", "}", ":", "/", "?", "="}

DecodeChar(code) ==
  IF \E c \in Encodable : PercentCode(c) = <<"%">> \o code
    THEN CHOOSE c \in Encodable : PercentCode(c) = <<"%">> \o code
    ELSE "#"

RECURSIVE decodeURIComponent(_)
decodeURIComponent(s) ==
  IF s = <<>> THEN <<>>
  ELSE IF Head(s) = "%"
    THEN IF Len(s) < 3 THEN <<"#">>
         ELSE <<DecodeChar(SubSeq(s, 2, 3))>> \o decodeURIComponent(SubSeq(s, 4, Len(s)))
    ELSE <<Head(s)>> \o decodeURIComponent(Tail(s))

RECURSIVE Unescape(_)
Unescape(s) ==
  IF s = <<>> THEN <<>>
  ELSE IF Head(s) = "\\" /\ Len(s) >= 2
    THEN <<s[2]>> \o Unescape(SubSeq(s, 3, Len(s)))
    ELSE <<Head(s)>> \o Unescape(Tail(s))

Unquote(q) == IF Len(q) < 2 THEN <<"#">> ELSE Unescape(SubSeq(q, 2, Len(q) - 1))

JSONparse(s) ==
  IF Len(s) >= 6 /\ SubSeq(s, 1, 5) = <<"{", "\"", "t", "\"", ":">> /\ s[Len(s)] = "}"
    THEN [type |-> "obj", val |-> Unquote(SubSeq(s, 6, Len(s) - 1))]
    ELSE [type |-> "invalid", val |-> <<>>]

\* the part of a redirect target after "?token="
TokenParam(loc, e) ==
  SubSeq(loc, Len(Frontend(e)) + Len(QTOKEN) + 1, Len(loc))

\* C1: when the token endpoint call of an /on_auth request with a non-empty
\* code succeeds with payload P, the handler answers 302 with the target
\* FRONTEND_URL (default "/") followed by "?token=" and urlencode(JSON(P));
\* P reaches the receiver unmodified (decoding and parsing the parameter
\* gives P back), the endpoint was called once, and a 302 exists only for
\* a request whose call has been answered.
C1_RedirectCarriesPayload ==
  \A r \in Ids :
    /\ (IsAuth(r) /\ reply[r].outcome = "ok") =>
         /\ Done(r)
         /\ ~(req[r].code \in {Undefined, ""})
         /\ calls[r] = 1
         /\ resp[r].status = 302
         /\ resp[r].location =
              (IF reply[r].envRead = <<>> THEN <<"/">> ELSE reply[r].envRead)
                \o QTOKEN \o encodeURIComponent(JSONstringify(reply[r].data))
         /\ JSONparse(decodeURIComponent(TokenParam(resp[r].location, reply[r].envRead)))
              = reply[r].data
    /\ resp[r].status = 302 => reply[r].outcome = "ok"
    /\ pc[r] = "awaiting" => resp[r] = NoResp /\ reply[r] = NoReply

C1_Witness ==
  \E r \in Ids :
    /\ IsAuth(r) /\ Done(r) /\ resp[r].status = 302
    /\ reply[r].data = [type |-> "obj", val |-> <<"\"">>]
    /\ resp[r].location = <<"/", "a">> \o QTOKEN \o
         <<"%", "7", "B", "%", "2", "2", "t", "%", "2", "2", "%", "3", "A",
           "%", "2", "2", "%", "5", "C", "%", "2", "2", "%", "2", "2", "%", "7", "D">>

\* C2: an /on_auth request whose code is absent or empty is answered 400
\* with a plain-text message, and no call to the token endpoint is made for
\* it, whatever the value of state.
C2_MissingCode400 ==
  \A r \in Ids :
    (IsAuth(r) /\ req[r].code \in {Undefined, ""}) =>
      /\ Done(r)
      /\ resp[r].status = 400
      /\ resp[r].ctype = "text"
      /\ resp[r].text = "Missing code"
      /\ resp[r].location = <<>>
      /\ calls[r] = 0
      /\ reply[r].outcome = "none"

C2_Witness ==
  /\ \E r \in Ids : IsAuth(r) /\ req[r].code = "" /\ req[r].state = "s1"
                    /\ resp[r].status = 400
  /\ \E r \in Ids : IsAuth(r) /\ req[r].code = Undefined /\ req[r].state = Undefined
                    /\ resp[r].status = 400

\* C3: an /on_auth request with a code whose token endpoint call fails
\* (network error or non-success answer) is answered 500 with the text
\* "Token exchange failed", without a redirect, and the token endpoint was
\* called exactly once for it.
C3_ExchangeFailure500 ==
  \A r \in Ids :
    (IsAuth(r) /\ reply[r].outcome \in Failures) =>
      /\ Done(r)
      /\ resp[r].status = 500
      /\ resp[r].ctype = "text"
      /\ resp[r].text = "Token exchange failed"
      /\ resp[r].location = <<>>
      /\ calls[r] = 1

C3_Witness ==
  /\ \E r \in Ids : IsAuth(r) /\ reply[r].outcome = "network" /\ resp[r].status = 500
  /\ \E r \in Ids : IsAuth(r) /\ reply[r].outcome = "http" /\ resp[r].status = 500

\* C4: the handler of an /upload request without a file answers 400 with
\* the JSON body {ok:false, message:"No file uploaded"}, with or without
\* an access_token, calls no deletion and leaves temporary storage as it is.
C4_NoFile400 ==
  [][\A r \in Ids :
       (pc[r] = "handler" /\ ~req[r].hasFile /\ pc'[r] # "handler") =>
          /\ resp'[r].status = 400
          /\ resp'[r].ctype = "json"
          /\ resp'[r].ok = "false"
          /\ resp'[r].message = "No file uploaded"
          /\ ~resp'[r].demo
          /\ unlinked' = unlinked
          /\ storage' = storage
    ]_vars

C4_Witness ==
  \E r \in Ids : HandlerRan(r) /\ ~req[r].hasFile /\ req[r].token = "tok"
                  /\ resp[r].status = 400 /\ storage # {}

\* C5: an /upload request with a file whose deletion succeeds is answered
\* 200 with ok:true, and the body has demo:true exactly when the request
\* carried no non-empty access_token; no external call is made for it.
C5_DemoIffNoToken ==
  \A r \in Ids :
    (HandlerRan(r) /\ req[r].hasFile /\ raised[r] = "none") =>
      /\ resp[r].status = 200
      /\ resp[r].ctype = "json"
      /\ resp[r].ok = "true"
      /\ resp[r].demo <=> req[r].token \in {Undefined, ""}
      /\ calls[r] = 0

C5_Witness ==
  /\ \E r \in Ids : HandlerRan(r) /\ req[r].hasFile /\ req[r].token = ""
                    /\ resp[r].status = 200 /\ resp[r].demo
  /\ \E r \in Ids : HandlerRan(r) /\ req[r].hasFile /\ req[r].token = "tok"
                    /\ resp[r].status = 200 /\ ~resp[r].demo

\* C6: when an /upload request with a file has been answered 200 (demo or
\* token path), its temporary file is not in temporary storage, in the
\* state of the response and in every later state.
C6_FileGoneAfter200 ==
  \A r \in Ids :
    (IsUpload(r) /\ req[r].hasFile /\ resp[r].status = 200) =>
      /\ req[r].path \notin storage
      /\ <<r, req[r].path>> \in unlinked

C6_Witness ==
  \E r, q \in Ids :
    /\ r < q
    /\ IsUpload(r) /\ req[r].hasFile /\ resp[r].status = 200
    /\ IsUpload(q) /\ req[q].hasFile /\ Done(q)

\* C7: every exception raised while an /upload request is handled, a
\* failure of multer before the handler body included, ends in a 500
\* response with a JSON body having ok:false.
C7_EveryExceptionJson500 ==
  \A r \in Ids :
    (IsUpload(r) /\ raised[r] # "none") =>
      /\ Done(r)
      /\ resp[r].status = 500
      /\ resp[r].ctype = "json"
      /\ resp[r].ok = "false"

\* the frontend base URL a 302 response redirects to
BaseOf(r) ==
  SubSeq(resp[r].location, 1,
         Len(resp[r].location)
           - Len(QTOKEN \o encodeURIComponent(JSONstringify(reply[r].data))))

\* C8: any two successful /on_auth requests of one process redirect to the
\* same frontend base URL, even if the environment changes between them.
C8_SameFrontendForAll ==
  \A r, q \in Ids :
    (resp[r].status = 302 /\ resp[q].status = 302) => BaseOf(r) = BaseOf(q)

\* C9: under any interleaving of /upload requests (their files have
\* distinct paths), a handler deletes only the file of its own request,
\* the file of a request still in flight is in temporary storage, and the
\* response of a request is determined by its own file, its own
\* access_token and the outcome of its own deletion.
C9_OnlyOwnFile ==
  /\ \A r, q \in Ids :
       (r # q /\ req[r].hasFile /\ req[q].hasFile) => req[r].path # req[q].path
  /\ \A r \in Ids :
       (IsUpload(r) /\ req[r].hasFile /\ pc[r] = "handler") => req[r].path \in storage
  /\ \A u \in unlinked : u[2] = req[u[1]].path /\ req[u[1]].hasFile
  /\ \A r, q \in Ids :
       ( /\ HandlerRan(r) /\ HandlerRan(q)
         /\ req[r].hasFile = req[q].hasFile
         /\ (req[r].token \in {Undefined, ""}) = (req[q].token \in {Undefined, ""})
         /\ raised[r] = raised[q] ) => resp[r] = resp[q]

C9_Witness ==
  \E r, q \in Ids :
    /\ r # q
    /\ IsUpload(r) /\ req[r].hasFile /\ pc[r] = "handler"
    /\ IsUpload(q) /\ req[q].hasFile /\ resp[q].status = 200
    /\ storage = {req[r].path}

\* C10: the files in temporary storage are exactly the files of the
\* requests still in flight and of the requests whose handler ended on the
\* 500 exception path: no file of a request answered 200 is left, and a
\* file whose deletion failed stays.
C10_StorageIsInFlightPlusFailed ==
  storage = {req[r].path : r \in {q \in Ids :
                /\ IsUpload(q) /\ req[q].hasFile
                /\ \/ pc[q] = "handler"
                   \/ Done(q) /\ resp[q].status = 500 /\ resp[q].ctype = "json"}}

C10_Witness ==
  \E r, q \in Ids :
    /\ r < q
    /\ HandlerRan(r) /\ req[r].hasFile /\ raised[r] = "unlink"
    /\ req[r].path \in storage
    /\ HandlerRan(q) /\ req[q].hasFile /\ resp[q].status = 200
====
